---------------------------- MODULE Spec2Model ----------------------------
(***************************************************************************)
(* Model of update-adguard-dns.py: the resolver of the local address       *)
(* (get_ethernet_ip and the strategies under it) and the reconciliation    *)
(* of the AdGuard rewrite rules (update_dns_rewrite, process_hostname).    *)
(*                                                                         *)
(* A Python str is a sequence of one-character strings; None is the value  *)
(* None below, which no str equals.                                        *)
(***************************************************************************)
EXTENDS Integers, Sequences, FiniteSets, TLC

\* Bounds of the model (not program constants).
MaxHosts == 2
MaxStore == 2

\* validate_hostname's limits.
MaxHostnameLen == 253
MaxLabelLen == 63

\* Python's None.
None == <<"None">>

\* The truth value Python gives a str-or-None: None and '' are falsy.
Truthy(x) == x # None /\ x # <<>>

---------------------------------------------------------------------------
\* str methods, as Python computes them.

Whitespace == {" ", "\t", "\n", "\r"}

AlnumChars ==
    {"a", "b", "c", "d", "e", "f", "g", "h", "i", "j", "k", "l", "m", "n", "o", "p", "q",
     "r", "s", "t", "u", "v", "w", "x", "y", "z", "0", "1", "2", "3", "4", "5", "6", "7",
     "8", "9"}

\* s.startswith(p)
StartsWith(s, p) == Len(s) >= Len(p) /\ SubSeq(s, 1, Len(p)) = p

\* sub in s
Contains(s, sub) ==
    \E i \in 1..(Len(s) - Len(sub) + 1) : SubSeq(s, i, i + Len(sub) - 1) = sub

\* s.replace(c, '') for a one-character c
Remove(s, c) == SelectSeq(s, LAMBDA x : x # c)

\* s.isalnum(): non-empty and every character alphanumeric
IsAlnum(s) == s # <<>> /\ \A k \in 1..Len(s) : s[k] \in AlnumChars

\* s.strip(): from the first to the last character that is not whitespace
Strip(s) ==
    LET solid == {i \in 1..Len(s) : s[i] \notin Whitespace}
    IN  IF solid = {} THEN <<>>
        ELSE SubSeq(s, CHOOSE i \in solid : \A j \in solid : i <= j,
                       CHOOSE i \in solid : \A j \in solid : j <= i)

\* s.split(c): the pieces between the separators, empty pieces kept
Split(s, c) ==
    LET seps == {i \in 1..Len(s) : s[i] = c}
        n == Cardinality(seps)
        at(k) == IF k = 0 THEN 0
                 ELSE IF k = n + 1 THEN Len(s) + 1
                 ELSE CHOOSE p \in seps : Cardinality({q \in seps : q <= p}) = k
    IN  [k \in 1..(n + 1) |-> SubSeq(s, at(k - 1) + 1, at(k) - 1)]

\* s.split(): the runs of non-whitespace
SplitWs(s) ==
    LET starts == {i \in 1..Len(s) : s[i] \notin Whitespace /\ (i = 1 \/ s[i - 1] \in Whitespace)}
        first(k) == CHOOSE p \in starts : Cardinality({q \in starts : q <= p}) = k
        last(p) == CHOOSE j \in p..Len(s) :
                       /\ \A m \in p..j : s[m] \notin Whitespace
                       /\ (j = Len(s) \/ s[j + 1] \in Whitespace)
    IN  [k \in 1..Cardinality(starts) |-> SubSeq(s, first(k), last(first(k)))]

\* parts.index(x): the first position (from 0) of x, or -1 where Python raises ValueError
IndexOf(parts, x) ==
    IF \E k \in 1..Len(parts) : parts[k] = x
    THEN (CHOOSE k \in 1..Len(parts) : parts[k] = x /\ \A j \in 1..(k - 1) : parts[j] # x) - 1
    ELSE -1

RECURSIVE JoinAcc(_, _, _)
JoinAcc(list, sep, i) ==
    IF i > Len(list) THEN <<>>
    ELSE IF i = Len(list) THEN list[i]
    ELSE list[i] \o <<sep>> \o JoinAcc(list, sep, i + 1)

\* sep.join(list): how a comma-separated HOSTNAMES value is written
Join(list, sep) == JoinAcc(list, sep, 1)

---------------------------------------------------------------------------
\* String literals of the source and the texts the environment can hand it.

S_docker ==
    <<"d", "o", "c", "k", "e", "r">>

S_containerd ==
    <<"c", "o", "n", "t", "a", "i", "n", "e", "r", "d">>

S_src ==
    <<"s", "r", "c">>

S_inet ==
    <<"i", "n", "e", "t", " ">>

S_scope_global ==
    <<"s", "c", "o", "p", "e", " ", "g", "l", "o", "b", "a", "l">>

S_en ==
    <<"e", "n">>

S_loopback ==
    <<"1", "2", "7", ".">>

S_linklocal ==
    <<"1", "6", "9", ".", "2", "5", "4", ".">>

IP1 ==
    <<"1", "0", ".", "0", ".", "0", ".", "5">>

IP2 ==
    <<"1", "0", ".", "0", ".", "0", ".", "6">>

IPLoop ==
    <<"1", "2", "7", ".", "0", ".", "0", ".", "1">>

IPLink ==
    <<"1", "6", "9", ".", "2", "5", "4", ".", "1", ".", "2">>

CgDocker ==
    <<"0", ":", ":", "/", "d", "o", "c", "k", "e", "r", "/", "a", "1">>

CgContainerd ==
    <<"0", ":", ":", "/", "c", "o", "n", "t", "a", "i", "n", "e", "r", "d", "/", "a", "1">>

CgBoth ==
    <<"1", ":", "/", "d", "o", "c", "k", "e", "r", "/", "a", "1", "\n", "0", ":", ":", "/",
      "c", "o", "n", "t", "a", "i", "n", "e", "r", "d", "/", "a", "1">>

CgHost ==
    <<"0", ":", ":", "/", "i", "n", "i", "t", ".", "s", "c", "o", "p", "e">>

RouteSrc ==
    <<"8", ".", "8", ".", "8", ".", "8", " ", "v", "i", "a", " ", "1", "0", ".", "0", ".", "0",
      ".", "1", " ", "d", "e", "v", " ", "e", "t", "h", "0", " ", "s", "r", "c", " ", "1", "0",
      ".", "0", ".", "0", ".", "5", " ", "u", "i", "d", " ", "0", "\n", " ", " ", " ", " ",
      "c", "a", "c", "h", "e", "\n">>

RouteLoop ==
    <<"8", ".", "8", ".", "8", ".", "8", " ", "d", "e", "v", " ", "l", "o", " ", "s", "r", "c",
      " ", "1", "2", "7", ".", "0", ".", "0", ".", "1", " ", "u", "i", "d", " ", "0", "\n">>

RouteLink ==
    <<"8", ".", "8", ".", "8", ".", "8", " ", "d", "e", "v", " ", "e", "t", "h", "0", " ", "s",
      "r", "c", " ", "1", "6", "9", ".", "2", "5", "4", ".", "1", ".", "2", "\n">>

RouteNoSrc ==
    <<"8", ".", "8", ".", "8", ".", "8", " ", "v", "i", "a", " ", "1", "0", ".", "0", ".", "0",
      ".", "1", " ", "d", "e", "v", " ", "e", "t", "h", "0", "\n">>

RouteSrcLast ==
    <<"8", ".", "8", ".", "8", ".", "8", " ", "d", "e", "v", " ", "e", "t", "h", "0", " ", "s",
      "r", "c", "\n">>

RouteSrcSub ==
    <<"8", ".", "8", ".", "8", ".", "8", " ", "d", "e", "v", " ", "s", "r", "c", "n", "e", "t",
      "0", "\n">>

AddrGlobal ==
    <<"1", ":", " ", "l", "o", ":", " ", "<", "L", "O", "O", "P", "B", "A", "C", "K", ">",
      "\n", " ", " ", " ", " ", "i", "n", "e", "t", " ", "1", "2", "7", ".", "0", ".", "0",
      ".", "1", "/", "8", " ", "s", "c", "o", "p", "e", " ", "h", "o", "s", "t", " ", "l", "o",
      "\n", "2", ":", " ", "e", "t", "h", "0", ":", " ", "<", "U", "P", ">", "\n", " ", " ",
      " ", " ", "i", "n", "e", "t", " ", "1", "0", ".", "0", ".", "0", ".", "6", "/", "2", "4",
      " ", "s", "c", "o", "p", "e", " ", "g", "l", "o", "b", "a", "l", " ", "e", "t", "h", "0",
      "\n">>

AddrLinkFirst ==
    <<" ", " ", " ", " ", "i", "n", "e", "t", " ", "1", "6", "9", ".", "2", "5", "4", ".", "1",
      ".", "2", "/", "1", "6", " ", "s", "c", "o", "p", "e", " ", "g", "l", "o", "b", "a", "l",
      " ", "e", "t", "h", "0", "\n", " ", " ", " ", " ", "i", "n", "e", "t", " ", "1", "0",
      ".", "0", ".", "0", ".", "5", "/", "2", "4", " ", "s", "c", "o", "p", "e", " ", "g", "l",
      "o", "b", "a", "l", " ", "e", "t", "h", "1", "\n">>

AddrLoopGlobal ==
    <<" ", " ", " ", " ", "i", "n", "e", "t", " ", "1", "2", "7", ".", "0", ".", "0", ".", "1",
      "/", "8", " ", "s", "c", "o", "p", "e", " ", "g", "l", "o", "b", "a", "l", " ", "l", "o",
      "\n">>

AddrHostOnly ==
    <<" ", " ", " ", " ", "i", "n", "e", "t", " ", "1", "2", "7", ".", "0", ".", "0", ".", "1",
      "/", "8", " ", "s", "c", "o", "p", "e", " ", "h", "o", "s", "t", " ", "l", "o", "\n">>

IfEn ==
    <<"l", "o", "0", ":", " ", "f", "l", "a", "g", "s", "=", "8", "0", "4", "9", "\n", "\t",
      "i", "n", "e", "t", " ", "1", "2", "7", ".", "0", ".", "0", ".", "1", " ", "n", "e", "t",
      "m", "a", "s", "k", " ", "0", "x", "f", "f", "0", "0", "0", "0", "0", "0", "\n", "e",
      "n", "0", ":", " ", "f", "l", "a", "g", "s", "=", "8", "8", "6", "3", "\n", "\t", "i",
      "n", "e", "t", " ", "1", "0", ".", "0", ".", "0", ".", "5", " ", "n", "e", "t", "m", "a",
      "s", "k", " ", "0", "x", "f", "f", "f", "f", "f", "f", "0", "0", "\n">>

IfLinkFirst ==
    <<"e", "n", "0", ":", " ", "f", "l", "a", "g", "s", "=", "8", "8", "6", "3", "\n", "\t",
      "i", "n", "e", "t", " ", "1", "6", "9", ".", "2", "5", "4", ".", "1", ".", "2", " ", "n",
      "e", "t", "m", "a", "s", "k", " ", "0", "x", "f", "f", "f", "f", "0", "0", "0", "0",
      "\n", "e", "n", "1", ":", " ", "f", "l", "a", "g", "s", "=", "8", "8", "6", "3", "\n",
      "\t", "i", "n", "e", "t", " ", "1", "0", ".", "0", ".", "0", ".", "6", " ", "n", "e",
      "t", "m", "a", "s", "k", " ", "0", "x", "f", "f", "f", "f", "f", "f", "0", "0", "\n">>

IfLoOnly ==
    <<"l", "o", "0", ":", " ", "f", "l", "a", "g", "s", "=", "8", "0", "4", "9", "\n", "\t",
      "i", "n", "e", "t", " ", "1", "2", "7", ".", "0", ".", "0", ".", "1", " ", "n", "e", "t",
      "m", "a", "s", "k", " ", "0", "x", "f", "f", "0", "0", "0", "0", "0", "0", "\n">>

IfEnLoop ==
    <<"e", "n", "0", ":", " ", "f", "l", "a", "g", "s", "=", "8", "8", "6", "3", "\n", "\t",
      "i", "n", "e", "t", " ", "1", "2", "7", ".", "0", ".", "0", ".", "1", " ", "n", "e", "t",
      "m", "a", "s", "k", " ", "0", "x", "f", "f", "0", "0", "0", "0", "0", "0", "\n">>

\* A label of 64 characters and a name of 255: past validate_hostname's limits.
LongLabel == [k \in 1..(MaxLabelLen + 1) |-> "a"]

LongName == [k \in 1..(MaxHostnameLen + 2) |-> IF k % 2 = 0 THEN "." ELSE "a"]

---------------------------------------------------------------------------
\* Configuration parsing and validation.

\* parse_hostnames(): HOSTNAMES (comma-separated) wins over the legacy HOSTNAME.
StripAll(list) == [k \in 1..Len(list) |-> Strip(list[k])]

parse_hostnames(hostnames_var, hostname_var) ==
    IF Truthy(hostnames_var)
    THEN SelectSeq(StripAll(Split(hostnames_var, ",")), LAMBDA h : h # <<>>)
    ELSE IF Truthy(hostname_var)
    THEN (IF Strip(hostname_var) # <<>> THEN <<Strip(hostname_var)>> ELSE <<>>)
    ELSE <<>>

\* One label of a hostname, as validate_hostname's loop body accepts it.
ValidPart(part) ==
    /\ part # <<>>
    /\ Len(part) <= MaxLabelLen
    /\ IsAlnum(Remove(Remove(part, "-"), "."))

validate_hostname(hostname) ==
    IF hostname = <<>> \/ Len(hostname) > MaxHostnameLen THEN FALSE
    ELSE LET parts == Split(hostname, ".")
         IN  IF Len(parts) < 1 THEN FALSE
             ELSE \A k \in 1..Len(parts) : ValidPart(parts[k])

---------------------------------------------------------------------------
\* The resolver of the local address.  An environment e is what the process
\* can observe: e.dockerenv (does /.dockerenv exist), e.cgroup (the text of
\* /proc/1/cgroup, None when open() raises), e.dns (what host.docker.internal
\* resolves to, None when gethostbyname raises), and e.route, e.addr,
\* e.ifconfig (the stdout of each command, None when the command fails or is
\* not installed).

\* f.read() on a file object at position pos: the rest of the file.
FileRead(content, pos) == SubSeq(content, pos + 1, Len(content))

\* The position of the file object after a read(): the end of the file.
FileEnd(content) == Len(content)

is_running_in_docker(e) ==
    IF e.dockerenv THEN TRUE
    ELSE IF e.cgroup = None THEN FALSE
    ELSE LET first == FileRead(e.cgroup, 0)
             second == FileRead(e.cgroup, FileEnd(e.cgroup))
         IN  Contains(first, S_docker) \/ Contains(second, S_containerd)

get_docker_host_ip(e) == e.dns

\* The candidate filter of the three platform strategies.
AcceptAddress(ip) == ~StartsWith(ip, S_loopback) /\ ~StartsWith(ip, S_linklocal)

\* The loop over the lines of `ip route get 8.8.8.8`: "return" with the address
\* found, "raise" where parts.index raises ValueError, "none" at the end.
RECURSIVE RouteScan(_, _)
RouteScan(lines, i) ==
    IF i > Len(lines) THEN [kind |-> "none", ip |-> None]
    ELSE IF ~Contains(lines[i], S_src) THEN RouteScan(lines, i + 1)
    ELSE LET parts == SplitWs(lines[i])
             src_index == IndexOf(parts, S_src)
         IN  IF src_index = -1 THEN [kind |-> "raise", ip |-> None]
             ELSE IF src_index + 1 < Len(parts) /\ AcceptAddress(parts[src_index + 2])
             THEN [kind |-> "return", ip |-> parts[src_index + 2]]
             ELSE RouteScan(lines, i + 1)

\* The loop over the lines of `ip addr show`.
RECURSIVE AddrScan(_, _)
AddrScan(lines, i) ==
    IF i > Len(lines) THEN None
    ELSE LET line == Strip(lines[i])
             parts == SplitWs(line)
         IN  IF /\ StartsWith(line, S_inet)
                /\ Contains(line, S_scope_global)
                /\ Len(parts) >= 2
                /\ AcceptAddress(Split(parts[2], "/")[1])
             THEN Split(parts[2], "/")[1]
             ELSE AddrScan(lines, i + 1)

get_ip_linux(e) ==
    IF e.route = None THEN None
    ELSE LET found == RouteScan(Split(e.route, "\n"), 1)
         IN  IF found.kind = "return" THEN found.ip
             ELSE IF found.kind = "raise" THEN None
             ELSE IF e.addr = None THEN None
             ELSE AddrScan(Split(e.addr, "\n"), 1)

\* The loop over the lines of ifconfig, current_interface carried along.
RECURSIVE IfconfigScan(_, _, _)
IfconfigScan(lines, i, current_interface) ==
    IF i > Len(lines) THEN None
    ELSE LET line == Strip(lines[i])
             parts == SplitWs(line)
         IN  IF StartsWith(line, S_en)
             THEN IfconfigScan(lines, i + 1, Split(line, ":")[1])
             ELSE IF /\ StartsWith(line, S_inet)
                     /\ Truthy(current_interface)
                     /\ StartsWith(current_interface, S_en)
                     /\ Len(parts) >= 2
                     /\ AcceptAddress(parts[2])
             THEN parts[2]
             ELSE IfconfigScan(lines, i + 1, current_interface)

get_ip_macos(e) ==
    IF e.ifconfig = None THEN None
    ELSE IfconfigScan(Split(e.ifconfig, "\n"), 1, None)

get_ethernet_ip(e) ==
    IF is_running_in_docker(e) THEN get_docker_host_ip(e)
    ELSE LET linux == get_ip_linux(e)
             ip == IF Truthy(linux) THEN linux ELSE get_ip_macos(e)
         IN  IF Truthy(ip) THEN ip ELSE None

---------------------------------------------------------------------------
\* The remote rule store behind AdGuard's /control/rewrite API: a list of
\* rules [domain, answer], duplicates allowed.  Each client function is given
\* the store and whether the HTTP call goes through (ok); a call that fails
\* leaves the store as it was.

\* GET /control/rewrite/list: the rules, in the store's order.
get_existing_rewrites(st) == st

\* POST /control/rewrite/delete {"domain": domain}: the rules of that domain go.
delete_existing_rewrite(st, domain, ok) ==
    IF ok THEN SelectSeq(st, LAMBDA rule : rule.domain # domain) ELSE st

\* Mutant of add_dns_rewrite: the request carries the domain as the answer.
add_dns_rewrite_wrong_answer(st, domain, ip, ok) ==
    IF ok THEN Append(st, [domain |-> domain, answer |-> domain]) ELSE st

\* POST /control/rewrite/add {"domain": domain, "answer": ip}
add_dns_rewrite(st, domain, ip, ok) ==
    IF ok THEN Append(st, [domain |-> domain, answer |-> ip]) ELSE st

\* One remote call as the run's trace records it.
Call(op, domain, ok) == [op |-> op, domain |-> domain, ok |-> ok]

\* The first rule of the snapshot whose domain is the hostname (0: none): the
\* rule process_hostname's for loop stops at.
FirstMatch(existing_rewrites, hostname) ==
    IF \E k \in 1..Len(existing_rewrites) : existing_rewrites[k].domain = hostname
    THEN CHOOSE k \in 1..Len(existing_rewrites) :
             /\ existing_rewrites[k].domain = hostname
             /\ \A j \in 1..(k - 1) : existing_rewrites[j].domain # hostname
    ELSE 0

\* The tail of process_hostname: "Add new rewrite rule".
AddRule(hostname, local_ip, st, calls, branch, addOk) ==
    [ret |-> addOk,
     store |-> add_dns_rewrite(st, hostname, local_ip, addOk),
     calls |-> Append(calls, Call("create", hostname, addOk)),
     branch |-> branch]

\* What process_hostname returns for a hostname that fails validation.
Rejected(st) == [ret |-> FALSE, store |-> st, calls |-> <<>>, branch |-> "invalid"]

\* process_hostname after the validation: "Check if rule already exists with same
\* IP", the delete of a stale rule, and the create.
Reconcile(hostname, local_ip, existing_rewrites, st, delOk, addOk) ==
    LET m == FirstMatch(existing_rewrites, hostname)
    IN  IF m = 0 THEN AddRule(hostname, local_ip, st, <<>>, "create", addOk)
        ELSE IF existing_rewrites[m].answer = local_ip
        THEN [ret |-> TRUE, store |-> st, calls |-> <<>>, branch |-> "satisfied"]
        ELSE IF ~delOk
        THEN [ret |-> FALSE, store |-> st,
              calls |-> <<Call("delete", hostname, FALSE)>>, branch |-> "replace"]
        ELSE AddRule(hostname, local_ip, delete_existing_rewrite(st, hostname, TRUE),
                     <<Call("delete", hostname, TRUE)>>, "replace", addOk)

\* Mutant of process_hostname: no validation before the remote calls.
process_hostname_unvalidated(hostname, local_ip, existing_rewrites, st, delOk, addOk) ==
    Reconcile(hostname, local_ip, existing_rewrites, st, delOk, addOk)

\* Mutant of process_hostname: the rules are looked up in the store as it is now,
\* not in the snapshot.
process_hostname_live(hostname, local_ip, existing_rewrites, st, delOk, addOk) ==
    IF ~validate_hostname(hostname) THEN Rejected(st)
    ELSE Reconcile(hostname, local_ip, st, st, delOk, addOk)

\* Mutant of process_hostname: a failed delete does not return, the create follows.
process_hostname_create_anyway(hostname, local_ip, existing_rewrites, st, delOk, addOk) ==
    IF ~validate_hostname(hostname) THEN Rejected(st)
    ELSE LET m == FirstMatch(existing_rewrites, hostname)
         IN  IF m # 0 /\ existing_rewrites[m].answer # local_ip /\ ~delOk
             THEN AddRule(hostname, local_ip, st, <<Call("delete", hostname, FALSE)>>,
                          "replace", addOk)
             ELSE Reconcile(hostname, local_ip, existing_rewrites, st, delOk, addOk)

\* process_hostname(hostname, local_ip, existing_rewrites) against the store st,
\* delOk and addOk telling whether its delete and its create call go through:
\* the value returned, the store afterwards, the calls issued, the branch taken.
process_hostname(hostname, local_ip, existing_rewrites, st, delOk, addOk) ==
    IF ~validate_hostname(hostname) THEN Rejected(st)
    ELSE Reconcile(hostname, local_ip, existing_rewrites, st, delOk, addOk)

\* Mutant of credentials_missing: "and" in place of "or".
credentials_missing_both(username, password) == ~Truthy(username) /\ ~Truthy(password)

\* update_dns_rewrite's credentials check.
credentials_missing(username, password) == ~Truthy(username) \/ ~Truthy(password)

\* Mutant of next_index: the loop breaks at the first hostname that fails.
next_index_break(i, ret, n) == IF ret THEN i + 1 ELSE n + 1

\* The for loop of update_dns_rewrite moves on to the next hostname whatever
\* process_hostname returned (ret), up to the end of the list of n hostnames.
next_index(i, ret, n) == i + 1

\* Mutant of run_outcome: success only when every hostname succeeded.
run_outcome_all(count, total) == count = total

\* update_dns_rewrite's summary: the value it returns after the loop.
run_outcome(count, total) ==
    IF count = total THEN TRUE
    ELSE IF count > 0 THEN TRUE
    ELSE FALSE

---------------------------------------------------------------------------
\* The inputs of the model.

SeqsUpTo(S, n) == UNION {[1..k -> S] : k \in 0..n}

HostA == <<"a">>

HostB == <<"b">>

HostBad == <<"a", "_">>

HostPool == {HostA, HostB, HostBad}

RulePool == [domain : {HostA, HostB}, answer : {IP1, IP2}]

Admin == <<"a", "d", "m", "i", "n">>

\* A container whose gateway name resolves to ip.
DockerEnv(ip) ==
    [dockerenv |-> TRUE, cgroup |-> None, dns |-> ip,
     route |-> None, addr |-> None, ifconfig |-> None]

\* Environments that differ in what the container detection and the gateway
\* lookup see.
ContainerEnvs ==
    [dockerenv : BOOLEAN, cgroup : {None, CgDocker, CgContainerd, CgBoth, CgHost},
     dns : {None, IP1, IPLoop, IPLink},
     route : {RouteSrc}, addr : {None}, ifconfig : {None}]

\* Environments outside a container that differ in what the commands print.
HostEnvs ==
    [dockerenv : {FALSE}, cgroup : {None}, dns : {None},
     route : {None, RouteSrc, RouteLoop, RouteLink, RouteNoSrc, RouteSrcLast, RouteSrcSub},
     addr : {None, AddrGlobal, AddrLinkFirst, AddrLoopGlobal, AddrHostOnly},
     ifconfig : {None, IfEn, IfLinkFirst, IfLoOnly, IfEnLoop}]

\* Values of HOSTNAMES and HOSTNAME that exercise the parsing and the validation.
HostnamesValues ==
    {None, <<>>, <<" ">>, <<"a", " ", ",", " ", ",", "b">>, <<" ", "a", ",", "a", "_">>,
     <<",", "b", ",">>}

HostnameValues ==
    {None, <<>>, <<" ">>, <<" ", "b", " ">>, <<"-">>, <<"a", ".", ".", "b">>,
     <<"a", ".", "b">>, LongLabel, LongName}

---------------------------------------------------------------------------
VARIABLES
    ADGUARD_USERNAME,   \* the configuration, read once from the environment
    ADGUARD_PASSWORD,
    HOSTNAME,
    HOSTNAMES,
    env,                \* what the resolver observes in this invocation
    store,              \* the remote rule store
    pc,                 \* where update_dns_rewrite / main stands
    hostnames,          \* update_dns_rewrite's locals
    local_ip,
    in_docker,          \* what is_running_in_docker() returned to get_ethernet_ip
    existing_rewrites,
    index,              \* the position of the for loop in hostnames (from 1)
    success_count,
    success,            \* main's success: what update_dns_rewrite returned
    exit_code,          \* what main handed sys.exit (-1: not yet)
    trace,              \* the calls of this invocation, in order
    outcomes,           \* per hostname processed: what process_hostname returned, its branch
    store0,             \* the store when this invocation started
    prev                \* the invocation before this one, in short

config == <<ADGUARD_USERNAME, ADGUARD_PASSWORD, HOSTNAME, HOSTNAMES>>

locals == <<hostnames, local_ip, in_docker, existing_rewrites, index, success_count>>

vars ==
    <<ADGUARD_USERNAME, ADGUARD_PASSWORD, HOSTNAME, HOSTNAMES, env, store, pc, hostnames,
      local_ip, in_docker, existing_rewrites, index, success_count, success, exit_code, trace,
      outcomes, store0, prev>>

\* No invocation came before.
NoPrev == [ran |-> FALSE, ip |-> None, clean |-> FALSE, writes |-> 0]

\* The start of an invocation of main().
Fresh ==
    /\ pc = "credentials"
    /\ hostnames = <<>>
    /\ local_ip = None
    /\ in_docker = FALSE
    /\ existing_rewrites = <<>>
    /\ index = 1
    /\ success_count = 0
    /\ success = FALSE
    /\ exit_code = -1
    /\ trace = <<>>
    /\ outcomes = <<>>

\* Reconciliation: every list of up to MaxHosts hostnames against every store of
\* up to MaxStore rules.
InitReconcile ==
    /\ ADGUARD_USERNAME = Admin /\ ADGUARD_PASSWORD = Admin
    /\ HOSTNAME = None
    /\ \E list \in SeqsUpTo(HostPool, MaxHosts) : HOSTNAMES = Join(list, ",")
    /\ env = DockerEnv(IP1)
    /\ store \in SeqsUpTo(RulePool, MaxStore)

\* Resolution: every environment, one hostname.
InitResolve ==
    /\ ADGUARD_USERNAME = Admin /\ ADGUARD_PASSWORD = Admin
    /\ HOSTNAME = None /\ HOSTNAMES = HostA
    /\ env \in ContainerEnvs \cup HostEnvs
    /\ store = <<>>

\* Configuration: every way the credentials and the hostname variables can be set.
InitConfig ==
    /\ \/ /\ ADGUARD_USERNAME \in {None, <<>>, Admin}
          /\ ADGUARD_PASSWORD \in {None, <<>>, Admin}
          /\ HOSTNAME = None /\ HOSTNAMES = HostA
       \/ /\ ADGUARD_USERNAME = Admin /\ ADGUARD_PASSWORD = Admin
          /\ HOSTNAME \in HostnameValues
          /\ HOSTNAMES \in HostnamesValues
    /\ env = DockerEnv(IP1)
    /\ store = <<>>

Init ==
    /\ InitReconcile \/ InitResolve \/ InitConfig
    /\ Fresh
    /\ store0 = store
    /\ prev = NoPrev

\* update_dns_rewrite returns b to main.
Return(b) == pc' = "exit" /\ success' = b

\* "Check credentials"
CheckCredentials ==
    /\ pc = "credentials"
    /\ IF credentials_missing(ADGUARD_USERNAME, ADGUARD_PASSWORD)
       THEN Return(FALSE)
       ELSE pc' = "parse" /\ UNCHANGED success
    /\ UNCHANGED <<config, env, store, locals, exit_code, trace, outcomes, store0, prev>>

\* "Parse hostnames"
ParseHostnames ==
    /\ pc = "parse"
    /\ hostnames' = parse_hostnames(HOSTNAMES, HOSTNAME)
    /\ IF hostnames' = <<>> THEN Return(FALSE) ELSE pc' = "resolve" /\ UNCHANGED success
    /\ UNCHANGED <<config, env, store, local_ip, in_docker, existing_rewrites, index,
                   success_count, exit_code, trace, outcomes, store0, prev>>

\* "Get local IP"
ResolveIP ==
    /\ pc = "resolve"
    /\ in_docker' = is_running_in_docker(env)
    /\ local_ip' = get_ethernet_ip(env)
    /\ trace' = Append(trace, Call("resolve", <<>>, Truthy(local_ip')))
    /\ IF ~Truthy(local_ip') THEN Return(FALSE) ELSE pc' = "list" /\ UNCHANGED success
    /\ UNCHANGED <<config, env, store, hostnames, existing_rewrites, index, success_count,
                   exit_code, outcomes, store0, prev>>

\* "Check existing rewrites": the list call goes through or fails.
FetchRewrites ==
    /\ pc = "list"
    /\ \E ok \in BOOLEAN :
          /\ trace' = Append(trace, Call("list", <<>>, ok))
          /\ IF ok
             THEN /\ existing_rewrites' = get_existing_rewrites(store)
                  /\ pc' = "loop"
                  /\ UNCHANGED success
             ELSE /\ UNCHANGED existing_rewrites
                  /\ Return(FALSE)
    /\ UNCHANGED <<config, env, store, hostnames, local_ip, in_docker, index, success_count,
                   exit_code, outcomes, store0, prev>>

\* One turn of "for hostname in hostnames".
ProcessHostname ==
    /\ pc = "loop"
    /\ index <= Len(hostnames)
    /\ \E delOk, addOk \in BOOLEAN :
          LET r == process_hostname(hostnames[index], local_ip, existing_rewrites, store,
                                    delOk, addOk)
          IN  /\ store' = r.store
              /\ trace' = trace \o r.calls
              /\ outcomes' = Append(outcomes, [hostname |-> hostnames[index], ret |-> r.ret,
                                               branch |-> r.branch, calls |-> r.calls])
              /\ success_count' = IF r.ret THEN success_count + 1 ELSE success_count
              /\ index' = next_index(index, r.ret, Len(hostnames))
    /\ UNCHANGED <<config, env, pc, hostnames, local_ip, in_docker, existing_rewrites,
                   success, exit_code, store0, prev>>

\* "Log summary": the loop is over and update_dns_rewrite returns.
Summary ==
    /\ pc = "loop"
    /\ index > Len(hostnames)
    /\ Return(run_outcome(success_count, Len(hostnames)))
    /\ UNCHANGED <<config, env, store, locals, exit_code, trace, outcomes, store0, prev>>

\* main: sys.exit(0 if success else 1)
Exit ==
    /\ pc = "exit"
    /\ exit_code' = IF success THEN 0 ELSE 1
    /\ pc' = "done"
    /\ UNCHANGED <<config, env, store, locals, success, trace, outcomes, store0, prev>>

\* Whether every remote call of the invocation went through, the list call included.
CleanRun ==
    /\ \E k \in 1..Len(trace) : trace[k].op = "list"
    /\ \A k \in 1..Len(trace) : trace[k].ok

\* The delete and create calls of the invocation.
Writes == SelectSeq(trace, LAMBDA c : c.op \in {"delete", "create"})

\* The script is invoked again: in the same environment, or after the address changed.
Invoke ==
    /\ pc = "done"
    /\ env' \in {env, DockerEnv(IP1), DockerEnv(IP2)}
    /\ prev' = [ran |-> TRUE, ip |-> local_ip, clean |-> CleanRun, writes |-> Len(Writes)]
    /\ store0' = store
    /\ pc' = "credentials"
    /\ hostnames' = <<>>
    /\ local_ip' = None
    /\ in_docker' = FALSE
    /\ existing_rewrites' = <<>>
    /\ index' = 1
    /\ success_count' = 0
    /\ success' = FALSE
    /\ exit_code' = -1
    /\ trace' = <<>>
    /\ outcomes' = <<>>
    /\ UNCHANGED <<config, store>>

Next ==
    \/ CheckCredentials
    \/ ParseHostnames
    \/ ResolveIP
    \/ FetchRewrites
    \/ ProcessHostname
    \/ Summary
    \/ Exit
    \/ Invoke

Spec == Init /\ [][Next]_vars

---------------------------------------------------------------------------
\* What the claims speak of.

\* The list call of this invocation went through: the loop was reached.
Fetched == \E k \in 1..Len(trace) : trace[k].op = "list" /\ trace[k].ok

\* The positions in the trace of the calls op for a domain.
CallsAt(op, domain) == {k \in 1..Len(trace) : trace[k].op = op /\ trace[k].domain = domain}

\* The positions in the trace of the calls op.
OpAt(op) == {k \in 1..Len(trace) : trace[k].op = op}

\* The rules of the store for a domain.
RulesFor(domain) == {k \in 1..Len(store) : store[k].domain = domain}

\* The branch the snapshot calls for: what §4.2 step 2 prescribes for a hostname.
Decision(snapshot, hostname, ip) ==
    IF ~validate_hostname(hostname) THEN "invalid"
    ELSE IF \A k \in 1..Len(snapshot) : snapshot[k].domain # hostname THEN "create"
    ELSE IF snapshot[FirstMatch(snapshot, hostname)].answer = ip THEN "satisfied"
    ELSE "replace"

\* C1 (as claimed): at the end of a run, every hostname for which process_hostname
\* returned success has exactly one rule in the store, and its answer is the
\* resolved IP.
C1_ExactlyOneRule ==
    pc = "done" =>
        \A i \in 1..Len(outcomes) :
            outcomes[i].ret =>
                /\ Cardinality(RulesFor(outcomes[i].hostname)) = 1
                /\ \A k \in RulesFor(outcomes[i].hostname) : store[k].answer = local_ip

\* C2 (as claimed): a run that follows a run with the same hostnames and the same
\* resolved IP issues no delete and no create call, every hostname taking the
\* already-satisfied branch.
C2_SecondRunSilent ==
    (prev.ran /\ Truthy(prev.ip) /\ local_ip = prev.ip) =>
        /\ Writes = <<>>
        /\ \A i \in 1..Len(outcomes) : outcomes[i].branch = "satisfied"

\* C2 (amended): a run that follows a run in which the list call and every delete
\* and create call went through, with the same resolved IP, issues no delete and no
\* create call: every valid hostname takes the already-satisfied branch, every
\* invalid one fails validation again.
C2_Idempotent ==
    (prev.ran /\ prev.clean /\ local_ip = prev.ip) =>
        /\ Writes = <<>>
        /\ store = store0
        /\ \A i \in 1..Len(outcomes) :
              outcomes[i].branch =
                  IF validate_hostname(outcomes[i].hostname) THEN "satisfied" ELSE "invalid"

\* C2 witness: a second run is over, after a first run that wrote to the store and
\* met no failure, with the same IP, and a hostname was found satisfied.
C2_Witness ==
    /\ pc = "done"
    /\ prev.ran /\ prev.clean /\ prev.writes > 0
    /\ local_ip = prev.ip
    /\ Len(outcomes) = Len(hostnames)
    /\ \E i \in 1..Len(outcomes) : outcomes[i].branch = "satisfied"

\* C3 (as claimed): in a run that reaches the loop, every hostname that has a rule
\* in the store whose answer is not the resolved IP gets exactly one delete call and
\* then exactly one create call.
C3_OneDeleteOneCreate ==
    (pc = "done" /\ Fetched) =>
        \A i \in 1..Len(hostnames) :
            (\E k \in 1..Len(store0) :
                 store0[k].domain = hostnames[i] /\ store0[k].answer # local_ip)
            => /\ Cardinality(CallsAt("delete", hostnames[i])) = 1
               /\ Cardinality(CallsAt("create", hostnames[i])) = 1
               /\ \A d \in CallsAt("delete", hostnames[i]) :
                     \A c \in CallsAt("create", hostnames[i]) : d < c

\* C3 (amended): each time process_hostname handles a valid hostname whose first
\* rule in the snapshot has an answer other than the resolved IP, it issues one
\* delete call for it and then, only if that delete went through, one create call
\* for it; a create call for such a hostname always follows its successful delete.
C3_ChangeDetection ==
    \A i \in 1..Len(outcomes) :
        LET h == outcomes[i].hostname
            calls == outcomes[i].calls
        IN  Decision(existing_rewrites, h, local_ip) = "replace" =>
                /\ Len(calls) \in {1, 2}
                /\ calls[1].op = "delete" /\ calls[1].domain = h
                /\ Len(calls) = 2 <=> calls[1].ok
                /\ Len(calls) = 2 => calls[2].op = "create" /\ calls[2].domain = h

\* C3 witness: a run is over in which a stale rule was deleted and created anew.
C3_Witness ==
    /\ pc = "done"
    /\ \E i \in 1..Len(outcomes) :
          /\ Decision(store0, outcomes[i].hostname, local_ip) = "replace"
          /\ Len(outcomes[i].calls) = 2
          /\ outcomes[i].ret

\* C4: once the snapshot is obtained, the run exits 0 if and only if some hostname's
\* process_hostname returned success, and exits 1 if and only if none did.
C4_Aggregate ==
    (pc = "done" /\ Fetched) =>
        /\ exit_code = 0 <=> \E i \in 1..Len(outcomes) : outcomes[i].ret
        /\ exit_code = 1 <=> \A i \in 1..Len(outcomes) : ~outcomes[i].ret
        /\ success <=> exit_code = 0

\* C4 witness: a run with a success and a failure has exited 0.
C4_Witness ==
    /\ pc = "done"
    /\ exit_code = 0
    /\ \E i \in 1..Len(outcomes) : outcomes[i].ret
    /\ \E i \in 1..Len(outcomes) : ~outcomes[i].ret

\* C5: a run with missing credentials or no hostname returns failure with no
\* resolution and no remote call; a run whose resolution fails returns failure with
\* no list call; a run whose list call fails returns failure with no hostname
\* processed.  None of them issues a delete or a create, or changes the store.
C5_FatalStops ==
    LET missing == \/ ADGUARD_USERNAME \in {None, <<>>}
                   \/ ADGUARD_PASSWORD \in {None, <<>>}
        unresolved == \E k \in OpAt("resolve") : ~trace[k].ok
        unlisted == \E k \in OpAt("list") : ~trace[k].ok
    IN  /\ (missing /\ pc # "credentials") => pc \in {"exit", "done"} /\ trace = <<>>
        /\ (hostnames = <<>> /\ pc \notin {"credentials", "parse"}) =>
               pc \in {"exit", "done"} /\ trace = <<>>
        /\ (env.dockerenv /\ env.dns = None /\ trace # <<>>) => unresolved
        /\ unresolved => pc \in {"exit", "done"} /\ Len(trace) = 1
        /\ unlisted => pc \in {"exit", "done"} /\ Len(trace) = 2 /\ OpAt("resolve") = {1}
        /\ (pc \in {"exit", "done"} /\ ~Fetched) =>
               /\ ~success
               /\ Writes = <<>>
               /\ outcomes = <<>>
               /\ store = store0
        /\ (pc = "done" /\ ~Fetched) => exit_code = 1

\* C5 witness: a run has ended at a failed list call, with hostnames to process and
\* rules in the store.
C5_Witness ==
    /\ pc = "done"
    /\ \E k \in OpAt("list") : ~trace[k].ok
    /\ hostnames # <<>>
    /\ store # <<>>
    /\ exit_code = 1

\* C6: a delete or create call is issued only for a hostname validate_hostname
\* accepts; a hostname it rejects is recorded as a failure with no call, and the
\* hostnames after it are processed all the same.
C6_ValidationGate ==
    /\ \A k \in OpAt("delete") \cup OpAt("create") : validate_hostname(trace[k].domain)
    /\ \A i \in 1..Len(outcomes) :
          ~validate_hostname(hostnames[i]) =>
              /\ outcomes[i].hostname = hostnames[i]
              /\ ~outcomes[i].ret
              /\ outcomes[i].calls = <<>>
    /\ (pc \in {"exit", "done"} /\ Fetched) => Len(outcomes) = Len(hostnames)

\* C6 witness: an invalid hostname was refused and the hostname after it got its
\* calls.
C6_Witness ==
    /\ pc = "done"
    /\ \E i \in 1..(Len(outcomes) - 1) :
          /\ ~validate_hostname(hostnames[i])
          /\ outcomes[i].calls = <<>>
          /\ outcomes[i + 1].calls # <<>>

\* C7 (as claimed): the address get_ethernet_ip returns never starts with 127. or
\* 169.254., whichever strategy produced it.
C7_AddressFiltered ==
    (OpAt("resolve") # {} /\ Truthy(local_ip)) =>
        /\ ~StartsWith(local_ip, S_loopback)
        /\ ~StartsWith(local_ip, S_linklocal)

\* C8: a run that reaches the loop has called list once, before any delete or
\* create, and every hostname's branch is the one the snapshot of that call
\* prescribes, whatever the run has written to the store since.
C8_SingleSnapshot ==
    /\ Cardinality(OpAt("list")) <= 1
    /\ (pc = "loop" \/ outcomes # <<>>) => Fetched
    /\ \A k \in OpAt("delete") \cup OpAt("create") : \E j \in OpAt("list") : j < k
    /\ Fetched =>
          /\ existing_rewrites = store0
          /\ \A i \in 1..Len(outcomes) :
                outcomes[i].branch = Decision(store0, outcomes[i].hostname, local_ip)

\* C8 witness: a hostname listed twice was created twice, the second time although
\* the store already held its rule.
C8_Witness ==
    /\ pc = "done"
    /\ \E i \in 1..(Len(outcomes) - 1) :
          /\ outcomes[i].hostname = outcomes[i + 1].hostname
          /\ outcomes[i].branch = "create" /\ outcomes[i].ret
          /\ outcomes[i + 1].branch = "create"

\* C9: a hostname whose delete call fails is recorded as a failure and gets no
\* create call; no failed delete or create stops the loop: every hostname of the
\* list is processed once, in the list's order.
C9_WriteFailuresLocal ==
    /\ \A i \in 1..Len(outcomes) :
          LET calls == outcomes[i].calls
          IN  /\ (\E k \in 1..Len(calls) : ~calls[k].ok) => ~outcomes[i].ret
              /\ (\E k \in 1..Len(calls) : calls[k].op = "delete" /\ ~calls[k].ok) =>
                     \A k \in 1..Len(calls) : calls[k].op # "create"
    /\ Len(outcomes) <= Len(hostnames)
    /\ \A i \in 1..Len(outcomes) : outcomes[i].hostname = hostnames[i]
    /\ pc = "loop" => Len(outcomes) = index - 1
    /\ (pc \in {"exit", "done"} /\ Fetched) => Len(outcomes) = Len(hostnames)

\* C9 witness: a delete failed for one hostname, no create followed it, and the
\* hostname after it was processed.
C9_Witness ==
    /\ pc = "done"
    /\ \E i \in 1..(Len(outcomes) - 1) :
          /\ outcomes[i].calls = <<Call("delete", hostnames[i], FALSE)>>
          /\ ~outcomes[i].ret
          /\ outcomes[i + 1].calls # <<>>

\* C10 (as claimed): is_running_in_docker says "container" exactly when /.dockerenv
\* exists or /proc/1/cgroup can be read and holds 'docker' or 'containerd'; in a
\* container get_ethernet_ip returns what the gateway lookup returned.
C10_ContainerDetection ==
    OpAt("resolve") # {} =>
        /\ in_docker <=>
               \/ env.dockerenv
               \/ /\ env.cgroup # None
                  /\ Contains(env.cgroup, S_docker) \/ Contains(env.cgroup, S_containerd)
        /\ in_docker => local_ip = env.dns

====
